---- MODULE Spec2Model ----
(***************************************************************************)
(* Model of ijson/backends/yajl.py: the value converters (number and the   *)
(* _callback_data table), the callback bridge, and the basic_parse         *)
(* generator driving a yajl 1.x recognizer over chunks read from a source. *)
(*                                                                         *)
(* Bytes are integers 0..255.  Python values are records                   *)
(* [type |-> <python type name>, val |-> <sequence of integers>].          *)
(***************************************************************************)
EXTENDS Integers, Sequences, FiniteSets, TLC

(* ----------------------------------------------------------------------- *)
(* Bounds                                                                  *)
(* ----------------------------------------------------------------------- *)
MaxLen == 4        \* longest enumerated input document (bytes)
MaxBuf == 3        \* largest buf_size tried
MaxLexLen == 4     \* longest payload handed to a converter on its own
MaxLate == 2       \* next() calls tried on a generator that has ended
MaxCalls == 64     \* calls kept in the call log (longer than any session here)

(* ----------------------------------------------------------------------- *)
(* Bytes                                                                   *)
(* ----------------------------------------------------------------------- *)
Ord ==
  ("[" :> 91) @@ ("]" :> 93) @@ ("{" :> 123) @@ ("}" :> 125) @@
  ("," :> 44) @@ (":" :> 58) @@ ("\"" :> 34) @@ (" " :> 32) @@
  ("-" :> 45) @@ ("+" :> 43) @@ ("." :> 46) @@ ("0" :> 48) @@
  ("1" :> 49) @@ ("5" :> 53) @@ ("9" :> 57) @@ ("E" :> 69) @@
  ("e" :> 101) @@ ("a" :> 97) @@ ("f" :> 102) @@ ("k" :> 107) @@
  ("l" :> 108) @@ ("n" :> 110) @@ ("r" :> 114) @@ ("s" :> 115) @@
  ("t" :> 116) @@ ("u" :> 117) @@ ("x" :> 120) @@
  ("TAB" :> 9) @@ ("LF" :> 10) @@ ("CR" :> 13) @@
  ("C3" :> 195) @@ ("A9" :> 169) @@ ("FF" :> 255) @@
  ("ED" :> 237) @@ ("A0" :> 160)

Bytes(s) == [i \in 1..Len(s) |-> Ord[s[i]]]

SeqsUpTo(S, n) == UNION {[1..k -> S] : k \in 0..n}

IsDigit(b) == b >= Ord["0"] /\ b <= Ord["9"]

(* ----------------------------------------------------------------------- *)
(* Python values and the exceptions a converter can raise                  *)
(* ----------------------------------------------------------------------- *)
PyValue(t, v) == [type |-> t, val |-> v, exc |-> ""]
PyNone == PyValue("NoneType", <<>>)
PyBool(b) == PyValue("bool", <<IF b THEN 1 ELSE 0>>)
PyInt(n) == PyValue("int", <<n>>)
PyDecimal(sign, coef, exp) == PyValue("Decimal", <<sign, coef, exp>>)
\* Python 2: str is a byte string, unicode is text
PyStr(bytes) == PyValue("str", bytes)
PyUnicode(points) == PyValue("unicode", points)
\* Python 3: bytes is a byte string, str is text
PyBytes(bytes) == PyValue("bytes", bytes)
PyStr3(points) == PyValue("str", points)
\* string_at(v, l): str on Python 2, bytes on Python 3
string_at(py, bytes) == IF py = 2 THEN PyStr(bytes) ELSE PyBytes(bytes)
\* the text a decoder returns: unicode on Python 2, str on Python 3
PyText(py, points) == IF py = 2 THEN PyUnicode(points) ELSE PyStr3(points)

\* the interpreters the module runs under
PythonVersions == {2, 3}
PyRaise(exc) == [type |-> "raise", val |-> <<>>, exc |-> exc]

Raised(v) == v.type = "raise"

(* ----------------------------------------------------------------------- *)
(* int(value) and Decimal(value) on a byte string                          *)
(* ----------------------------------------------------------------------- *)
IsSign(b) == b = Ord["-"] \/ b = Ord["+"]

Negative(s) == s # <<>> /\ s[1] = Ord["-"]

\* index of the first byte after an optional leading sign
Unsigned(s) == IF s # <<>> /\ IsSign(s[1]) THEN 2 ELSE 1

RECURSIVE DigitsValue(_, _, _)
\* base-10 value of the digits s[i..j-1]
DigitsValue(s, i, j) ==
  IF j <= i THEN 0
  ELSE 10 * DigitsValue(s, i, j - 1) + (s[j - 1] - Ord["0"])

\* int(value): optional sign followed by one or more digits and nothing else
py_int(s) ==
  IF Unsigned(s) <= Len(s) /\ \A i \in Unsigned(s)..Len(s) : IsDigit(s[i])
  THEN PyInt((IF Negative(s) THEN -1 ELSE 1) * DigitsValue(s, Unsigned(s), Len(s) + 1))
  ELSE PyRaise("ValueError")

RECURSIVE DecimalScan(_, _, _, _, _, _, _, _, _)
\* Decimal(value): sign? (digits [. digits?] | . digits) [e sign? digits]
\* read from s[i]; ph is the part being read, coef the digits read so far,
\* nDig and nFrac how many of them and how many after the point, ex and nExp
\* the exponent digits, eNeg its sign
DecimalScan(s, i, ph, coef, nDig, nFrac, eNeg, ex, nExp) ==
  IF i > Len(s)
  THEN IF nDig > 0 /\ (ph \in {"int", "frac"} \/ nExp > 0)
       THEN PyDecimal(IF Negative(s) THEN 1 ELSE 0, coef,
                      (IF eNeg THEN 0 - ex ELSE ex) - nFrac)
       ELSE PyRaise("InvalidOperation")
  ELSE IF IsDigit(s[i]) /\ ph = "int"
       THEN DecimalScan(s, i + 1, ph, 10 * coef + (s[i] - Ord["0"]), nDig + 1,
                        nFrac, eNeg, ex, nExp)
  ELSE IF IsDigit(s[i]) /\ ph = "frac"
       THEN DecimalScan(s, i + 1, ph, 10 * coef + (s[i] - Ord["0"]), nDig + 1,
                        nFrac + 1, eNeg, ex, nExp)
  ELSE IF IsDigit(s[i])
       THEN DecimalScan(s, i + 1, "exp", coef, nDig, nFrac, eNeg,
                        10 * ex + (s[i] - Ord["0"]), nExp + 1)
  ELSE IF s[i] = Ord["."] /\ ph = "int"
       THEN DecimalScan(s, i + 1, "frac", coef, nDig, nFrac, eNeg, ex, nExp)
  ELSE IF s[i] \in {Ord["e"], Ord["E"]} /\ ph \in {"int", "frac"} /\ nDig > 0
       THEN DecimalScan(s, i + 1, "e", coef, nDig, nFrac, eNeg, ex, nExp)
  ELSE IF IsSign(s[i]) /\ ph = "e"
       THEN DecimalScan(s, i + 1, "exp", coef, nDig, nFrac, s[i] = Ord["-"], ex, nExp)
  ELSE PyRaise("InvalidOperation")

\* Decimal(value) of line 41, value being string_at(v, l): Python 2 parses
\* the str; Python 3 refuses bytes ("conversion from bytes to Decimal is not
\* supported") whatever they hold
py_Decimal(py, s) ==
  IF py = 3 THEN PyRaise("TypeError")
  ELSE DecimalScan(s, Unsigned(s), "int", 0, 0, 0, FALSE, 0, 0)

\* number(): int first, Decimal only when int raises ValueError; what
\* Decimal raises is not caught
number(py, value) ==
  IF Raised(py_int(value)) THEN py_Decimal(py, value) ELSE py_int(value)

(* ----------------------------------------------------------------------- *)
(* str.decode('utf-8')                                                     *)
(* ----------------------------------------------------------------------- *)
IsCont(b) == b >= 128 /\ b <= 191

\* length of the UTF-8 sequence starting at s[i] that the decoder accepts, 0
\* if it refuses it; Python 3 refuses the encodings of surrogates (ED A0..BF
\* xx), Python 2 decodes them
Utf8Len(py, s, i) ==
  LET b == s[i]
      has(n) == i + n <= Len(s) /\ IsCont(s[i + n])
  IN IF b < 128 THEN 1
     ELSE IF b >= 194 /\ b <= 223 THEN (IF has(1) THEN 2 ELSE 0)
     ELSE IF b >= 224 /\ b <= 239
          THEN (IF /\ has(1) /\ has(2)
                   /\ (b = 224 => s[i + 1] >= 160)
                   /\ (b = 237 /\ py = 3 => s[i + 1] < 160)
                THEN 3 ELSE 0)
     ELSE IF b >= 240 /\ b <= 244
          THEN (IF /\ has(1) /\ has(2) /\ has(3)
                   /\ (b = 240 => s[i + 1] >= 144)
                   /\ (b = 244 => s[i + 1] <= 143)
                THEN 4 ELSE 0)
     ELSE 0

Utf8Point(s, i, n) ==
  IF n = 1 THEN s[i]
  ELSE IF n = 2 THEN (s[i] - 192) * 64 + (s[i + 1] - 128)
  ELSE IF n = 3 THEN (s[i] - 224) * 4096 + (s[i + 1] - 128) * 64 + (s[i + 2] - 128)
  ELSE (s[i] - 240) * 262144 + (s[i + 1] - 128) * 4096
       + (s[i + 2] - 128) * 64 + (s[i + 3] - 128)

RECURSIVE Utf8Decode(_, _, _, _)
Utf8Decode(py, s, i, acc) ==
  IF i > Len(s) THEN PyText(py, acc)
  ELSE LET n == Utf8Len(py, s, i)
       IN IF n = 0 THEN PyRaise("UnicodeDecodeError")
          ELSE Utf8Decode(py, s, i + n, Append(acc, Utf8Point(s, i, n)))

decode_utf8(py, s) == Utf8Decode(py, s, 1, <<>>)

(* ----------------------------------------------------------------------- *)
(* _callback_data: the converter of each event, applied to the arguments   *)
(* the C callback type passes after the context pointer.                   *)
(*   C_EMPTY passes nothing, C_INT/C_LONG/C_DOUBLE one scalar,             *)
(*   C_STR a pointer and a length (string_at(v, l) is the byte span).      *)
(* ----------------------------------------------------------------------- *)
EventNames ==
  <<"null", "boolean", "integer", "double", "number", "string",
    "start_map", "map_key", "end_map", "start_array", "end_array">>

EventKinds == {EventNames[i] : i \in 1..Len(EventNames)}

\* func(*args) of the row of _callback_data named event; payload is the
\* byte span for C_STR callbacks, <<flag>> for boolean, <<>> otherwise
Convert(py, event, payload) ==
  IF event \in {"null", "start_map", "end_map", "start_array", "end_array"} THEN PyNone
  ELSE IF event = "boolean" THEN PyBool(payload # <<0>>)
  ELSE IF event \in {"integer", "double"} THEN PyRaise("TypeError")
  ELSE IF event = "number" THEN number(py, payload)
  ELSE IF event = "string" THEN decode_utf8(py, payload)
  ELSE string_at(py, payload)

(* ----------------------------------------------------------------------- *)
(* Status codes returned by yajl_parse and yajl_parse_complete             *)
(* ----------------------------------------------------------------------- *)
YAJL_OK == 0
YAJL_CANCELLED == 1
YAJL_INSUFFICIENT_DATA == 2
YAJL_ERROR == 3

(* ----------------------------------------------------------------------- *)
(* The callback bridge.  cb = [events, invoked, py]: events is the closure *)
(* variable of basic_parse; invoked records every (event, payload) the     *)
(* recognizer called back with; py is the interpreter the callbacks run in.  A converter that raises leaves events     *)
(* alone: ctypes reports the exception and the C caller reads a return     *)
(* value nobody wrote (garbage).                                           *)
(* ----------------------------------------------------------------------- *)
c_callback(cb, event, payload, garbage) ==
  LET value == Convert(cb.py, event, payload)
      inv == Append(cb.invoked, [event |-> event, payload |-> payload])
  IN IF Raised(value)
     THEN [cb |-> [cb EXCEPT !.invoked = inv], ret |-> garbage]
     ELSE [cb |-> [cb EXCEPT !.events = Append(@, [event |-> event, value |-> value]),
                             !.invoked = inv],
           ret |-> 1]

(* ----------------------------------------------------------------------- *)
(* The recognizer (yajl 1.x): lexer                                        *)
(* Tokens are [tok, s, e, err]: the lexeme is data[s..e-1], e is the next  *)
(* offset.  tok = "eof" means the data ended inside (or before) a token.   *)
(* Inputs contain no backslash, so no string carries escapes.              *)
(* ----------------------------------------------------------------------- *)
IsWS(b) == b \in {Ord["TAB"], Ord["LF"], Ord["CR"], Ord[" "]}

RECURSIVE SkipWS(_, _)
SkipWS(d, i) == IF i <= Len(d) /\ IsWS(d[i]) THEN SkipWS(d, i + 1) ELSE i

Tok(t, s, e) == [tok |-> t, s |-> s, e |-> e, err |-> ""]
TokEOF(s) == [tok |-> "eof", s |-> s, e |-> s, err |-> ""]
TokErr(s, e, err) == [tok |-> "error", s |-> s, e |-> e, err |-> err]

\* a literal: the bytes after the first must spell rest
RECURSIVE LexLiteral(_, _, _, _, _, _)
LexLiteral(d, s, i, rest, k, t) ==
  IF k > Len(rest) THEN Tok(t, s, i)
  ELSE IF i > Len(d) THEN TokEOF(s)
  ELSE IF d[i] # rest[k] THEN TokErr(s, i, "invalid string in json text.")
  ELSE LexLiteral(d, s, i + 1, rest, k + 1, t)

\* yajl_lex_utf8_char: bytes the lexer's check accepts at d[i];
\* 0 = invalid, -1 = data ends inside the sequence
YajlUtf8Char(d, i) ==
  LET b == d[i]
      need == IF b <= 127 THEN 0
              ELSE IF b \div 32 = 6 THEN 1
              ELSE IF b \div 16 = 14 THEN 2
              ELSE IF b \div 8 = 30 THEN 3
              ELSE -1
      avail == IF Len(d) - i < need THEN Len(d) - i ELSE need
  IN IF need = -1 THEN 0
     ELSE IF \E k \in 1..avail : d[i + k] \div 64 # 2 THEN 0
     ELSE IF avail < need THEN -1
     ELSE need + 1

RECURSIVE LexString(_, _, _, _)
\* s is the offset of the opening quote, i the next byte to read
LexString(d, s, i, checkUTF8) ==
  IF i > Len(d) THEN TokEOF(s)
  ELSE IF d[i] = Ord["\""] THEN Tok("string", s, i + 1)
  ELSE IF d[i] < 32
       THEN TokErr(s, i + 1, "invalid character inside string.")
  ELSE IF checkUTF8 /\ d[i] >= 128
       THEN LET n == YajlUtf8Char(d, i)
            IN IF n = -1 THEN TokEOF(s)
               ELSE IF n = 0 THEN TokErr(s, i + 1, "invalid bytes in UTF8 string.")
               ELSE LexString(d, s, i + n, checkUTF8)
  ELSE LexString(d, s, i + 1, checkUTF8)

RECURSIVE LexNumber(_, _, _, _)
\* yajl_lex_number reading d[i] of the number that starts at d[s]; ph is the
\* part read last.  Every read past the end of the data is "eof" because the
\* lexer always looks one byte beyond the number.
LexNumber(d, s, i, ph) ==
  IF i > Len(d) THEN TokEOF(s)
  ELSE IF ph = "minus"
       THEN IF d[i] = Ord["0"] THEN LexNumber(d, s, i + 1, "zero")
            ELSE IF IsDigit(d[i]) THEN LexNumber(d, s, i + 1, "int")
            ELSE TokErr(s, i, "malformed number, a digit is required after the minus sign.")
  ELSE IF ph \in {"dot", "esign"} \/ (ph = "e" /\ ~IsSign(d[i]))
       THEN IF IsDigit(d[i])
            THEN LexNumber(d, s, i + 1, IF ph = "dot" THEN "frac" ELSE "exp")
            ELSE IF ph = "dot"
            THEN TokErr(s, i, "malformed number, a digit is required after the decimal point.")
            ELSE TokErr(s, i, "malformed number, a digit is required after the exponent.")
  ELSE IF ph = "e" THEN LexNumber(d, s, i + 1, "esign")
  ELSE IF IsDigit(d[i]) /\ ph # "zero" THEN LexNumber(d, s, i + 1, ph)
  ELSE IF d[i] = Ord["."] /\ ph \in {"zero", "int"} THEN LexNumber(d, s, i + 1, "dot")
  ELSE IF d[i] \in {Ord["e"], Ord["E"]} /\ ph \in {"zero", "int", "frac"}
       THEN LexNumber(d, s, i + 1, "e")
  ELSE Tok(IF ph \in {"zero", "int"} THEN "integer" ELSE "double", s, i)

\* the token that starts at d[s], the first byte that is not white space
LexAt(d, s, checkUTF8) ==
  IF s > Len(d) THEN TokEOF(s)
  ELSE CASE d[s] = Ord["{"] -> Tok("left_bracket", s, s + 1)
         [] d[s] = Ord["}"] -> Tok("right_bracket", s, s + 1)
         [] d[s] = Ord["["] -> Tok("left_brace", s, s + 1)
         [] d[s] = Ord["]"] -> Tok("right_brace", s, s + 1)
         [] d[s] = Ord[","] -> Tok("comma", s, s + 1)
         [] d[s] = Ord[":"] -> Tok("colon", s, s + 1)
         [] d[s] = Ord["t"] -> LexLiteral(d, s, s + 1, Bytes(<<"r", "u", "e">>), 1, "true")
         [] d[s] = Ord["f"] -> LexLiteral(d, s, s + 1, Bytes(<<"a", "l", "s", "e">>), 1, "false")
         [] d[s] = Ord["n"] -> LexLiteral(d, s, s + 1, Bytes(<<"u", "l", "l">>), 1, "null")
         [] d[s] = Ord["\""] -> LexString(d, s, s + 1, checkUTF8)
         [] d[s] = Ord["-"] -> LexNumber(d, s, s + 1, "minus")
         [] d[s] = Ord["0"] -> LexNumber(d, s, s + 1, "zero")
         [] IsDigit(d[s]) /\ d[s] # Ord["0"] -> LexNumber(d, s, s + 1, "int")
         [] OTHER -> TokErr(s, s + 1, "invalid char in json text.")

yajl_lex_lex(d, off, checkUTF8) == LexAt(d, SkipWS(d, off), checkUTF8)

(* ----------------------------------------------------------------------- *)
(* The recognizer (yajl 1.x): parser                                       *)
(* A handle is [stack, pending, checkUTF8, kind, parseError]: the state    *)
(* stack, the bytes of a token cut by the end of a chunk, the Config flag, *)
(* and the error kind and text yajl_get_error renders.                     *)
(* ----------------------------------------------------------------------- *)
NewHandle(checkUTF8) ==
  [stack |-> <<"start">>, pending |-> <<>>, checkUTF8 |-> checkUTF8,
   kind |-> "", parseError |-> ""]

Top(h) == h.stack[Len(h.stack)]
SetTop(h, st) == [h EXCEPT !.stack[Len(h.stack)] = st]
Push(h, st) == [h EXCEPT !.stack = Append(@, st)]
Pop(h) == [h EXCEPT !.stack = SubSeq(@, 1, Len(@) - 1)]
Fail(h, kind, msg) ==
  [SetTop(h, IF kind = "lexical error" THEN "lexical_error" ELSE "parse_error")
     EXCEPT !.kind = kind, !.parseError = msg]

Ret(h, cb, status) == [h |-> h, cb |-> cb, status |-> status]

\* _CC_CHK: a callback that returned 0 cancels the parse
Cancel(h, cb) ==
  Ret([Fail(h, "parse error", "client cancelled parse via callback return value")
         EXCEPT !.pending = <<>>],
      cb, YAJL_CANCELLED)

\* the state a value leaves its enclosing container in
AfterValue(st) ==
  IF st = "start" THEN "parse_complete"
  ELSE IF st = "map_need_val" THEN "map_got_val"
  ELSE "array_got_val"

\* what the parser does with a token: the callback it makes (event), the
\* state it gives the top of the stack (set), the state it pushes, whether
\* it pops, or the parse error
Move(event, set, push, pop) ==
  [event |-> event, set |-> set, push |-> push, pop |-> pop, err |-> ""]
Refuse(msg) == [event |-> "", set |-> "", push |-> "", pop |-> FALSE, err |-> msg]

Transition(st, tok) ==
  IF st \in {"start", "map_need_val", "array_need_val", "array_start"}
  THEN CASE tok = "string" -> Move("string", AfterValue(st), "", FALSE)
         [] tok \in {"true", "false"} -> Move("boolean", AfterValue(st), "", FALSE)
         [] tok = "null" -> Move("null", AfterValue(st), "", FALSE)
         [] tok \in {"integer", "double"} -> Move("number", AfterValue(st), "", FALSE)
         [] tok = "left_bracket" -> Move("start_map", AfterValue(st), "map_start", FALSE)
         [] tok = "left_brace" -> Move("start_array", AfterValue(st), "array_start", FALSE)
         [] tok = "right_brace" /\ st = "array_start" -> Move("end_array", "", "", TRUE)
         [] OTHER -> Refuse("unallowed token at this point in JSON text")
  ELSE IF st \in {"map_start", "map_need_key"}
  THEN CASE tok = "string" -> Move("map_key", "map_sep", "", FALSE)
         [] tok = "right_bracket" /\ st = "map_start" -> Move("end_map", "", "", TRUE)
         [] OTHER -> Refuse("invalid object key (must be a string)")
  ELSE IF st = "map_sep"
  THEN IF tok = "colon" THEN Move("", "map_need_val", "", FALSE)
       ELSE Refuse("object key and value must be separated by a colon (':')")
  ELSE IF st = "map_got_val"
  THEN CASE tok = "right_bracket" -> Move("end_map", "", "", TRUE)
         [] tok = "comma" -> Move("", "map_need_key", "", FALSE)
         [] OTHER -> Refuse("after key and value, inside map, I expect ',' or '}'")
  ELSE \* array_got_val
       CASE tok = "right_brace" -> Move("end_array", "", "", TRUE)
         [] tok = "comma" -> Move("", "array_need_val", "", FALSE)
         [] OTHER -> Refuse("after array element, I expect ',' or ']'")

\* the handle after the move t
Moved(h, t) ==
  IF t.pop THEN Pop(h)
  ELSE IF t.push # "" THEN Push(SetTop(h, t.set), t.push)
  ELSE SetTop(h, t.set)

\* the arguments of the callback of a token: the byte span between the
\* quotes of a string, the lexeme of a number, the flag of a boolean
Payload(d, tk) ==
  IF tk.tok = "string" THEN SubSeq(d, tk.s + 1, tk.e - 2)
  ELSE IF tk.tok \in {"integer", "double"} THEN SubSeq(d, tk.s, tk.e - 1)
  ELSE IF tk.tok = "true" THEN <<1>>
  ELSE IF tk.tok = "false" THEN <<0>>
  ELSE <<>>

RECURSIVE yajl_do_parse(_, _, _, _, _)
\* the parse after a callback returned r.ret
AfterCallback(h, d, tk, garbage, t, r) ==
  IF r.ret = 0 THEN Cancel(h, r.cb)
  ELSE yajl_do_parse(Moved(h, t), d, tk.e, r.cb, garbage)

\* one round of the parser loop, tk being the token lexed at the offset and
\* t the move of the parser on it
yajl_parse_token(h, d, tk, cb, garbage, t) ==
  IF Top(h) = "parse_complete" THEN Ret([h EXCEPT !.pending = <<>>], cb, YAJL_OK)
  ELSE IF Top(h) \in {"lexical_error", "parse_error"}
       THEN Ret([h EXCEPT !.pending = <<>>], cb, YAJL_ERROR)
  ELSE IF tk.tok = "eof"
       THEN Ret([h EXCEPT !.pending = SubSeq(d, tk.s, Len(d))], cb,
                YAJL_INSUFFICIENT_DATA)
  ELSE IF tk.tok = "error"
       THEN yajl_do_parse(Fail(h, "lexical error", tk.err), d, tk.e, cb, garbage)
  ELSE IF t.err # ""
       THEN yajl_do_parse(Fail(h, "parse error", t.err), d, tk.e, cb, garbage)
  ELSE IF t.event = ""
       THEN yajl_do_parse(Moved(h, t), d, tk.e, cb, garbage)
  ELSE AfterCallback(h, d, tk, garbage, t,
                     c_callback(cb, t.event, Payload(d, tk), garbage))

\* the parser loop: each round lexes the token at d[off..] and works on the
\* handle and the callback state the round before left
yajl_do_parse(h, d, off, cb, garbage) ==
  CHOOSE r \in
    {yajl_parse_token(hv, d, tk, cv, garbage, Transition(Top(hv), tk.tok)) :
       hv \in {h}, cv \in {cb}, tk \in {yajl_lex_lex(d, off, h.checkUTF8)}} : TRUE

\* yajl_parse(handle, buffer, len): the bytes of a token cut by the end of
\* the previous chunk are lexed again in front of the new ones
yajl_parse(h, buffer, cb, garbage) ==
  CHOOSE r \in {yajl_do_parse(h, d, 1, cb, garbage) : d \in {h.pending \o buffer}} : TRUE

\* yajl_parse_complete(handle): one blank ends a number still in the lexer
yajl_parse_complete(h, cb, garbage) ==
  yajl_parse(h, <<Ord[" "]>>, cb, garbage)

\* yajl_get_error(handle, 1, buffer, len): the error text, and with
\* verbose = 1 the chunk it was found in
yajl_get_error(h, buffer) ==
  [kind |-> h.kind, text |-> h.parseError, context |-> buffer]

(* ----------------------------------------------------------------------- *)
(* A session: one call of basic_parse and the generator it returns         *)
(* ----------------------------------------------------------------------- *)
VARIABLES
  doc,       \* the whole content of f
  source,    \* the bytes of f not read yet
  cfg,       \* [allow_comments, check_utf8, buf_size]
  garbage,   \* what the C caller reads as the return value of a callback
             \* whose Python function raised (nothing wrote it)
  pc,        \* position of the generator
  pulling,   \* a next() or close() of the caller is running the generator
  hstate,    \* "none", "live", "null" (yajl_alloc returned NULL), "freed"
  handle,    \* the recognizer behind the handle
  buffer,    \* the chunk read last
  result,    \* the status returned last (-1 before the first call)
  events,    \* the closure variable events
  iter,      \* how many elements the for loop has taken from events
  exc,       \* the exception travelling through the finally clause
  outcome,   \* how the generator ended, as the caller sees it
  yielded,   \* every event the caller received, in order
  appended,  \* every event a callback appended, in order
  invoked,   \* every (event, payload) the recognizer called back with
  calls,     \* every call on the source and the recognizer, in order
  late,      \* next() calls made after the generator had ended
  first,     \* the result of an earlier session over the same doc
  conv,      \* a converter applied on its own: [event, payload, done, value]
  python     \* the major version of the interpreter running the module

vars == <<doc, source, cfg, garbage, pc, pulling, hstate, handle, buffer,
          result, events, iter, exc, outcome, yielded, appended, invoked,
          calls, late, first, conv, python>>

session == <<source, pc, pulling, hstate, handle, buffer, result, events,
             iter, exc, outcome, yielded, appended, invoked, calls, late>>

NoExc == [kind |-> "", payload |-> <<>>]
Exc(kind, payload) == [kind |-> kind, payload |-> <<payload>>]
NoFirst == [set |-> FALSE, yielded |-> <<>>, outcome |-> ""]
NoConv == [event |-> "null", payload |-> <<>>, done |-> FALSE, value |-> PyNone]

Call(op, st) == [op |-> op, st |-> st]
\* the call log with cs added; it stops growing at MaxCalls entries
Log(log, cs) == SubSeq(log \o cs, 1, IF Len(log \o cs) < MaxCalls THEN Len(log \o cs) ELSE MaxCalls)
Terminal == {"done", "failed", "closed", "crashed"}

(* ----------------------------------------------------------------------- *)
(* Inputs                                                                  *)
(* ----------------------------------------------------------------------- *)
EnumAlphabet == {Ord["["], Ord["]"], Ord["1"], Ord[","]}

Corpus ==
  { Bytes(<<"[", "1", ",", " ", "\"", "x", "\"", ",", " ",
            "{", "\"", "k", "\"", ":", " ", "t", "r", "u", "e", "}", "]">>),
    Bytes(<<"{", "\"", "a", "\"", ":">>),
    Bytes(<<"{", "\"", "a", "\"", ":", "}">>),
    Bytes(<<"[", "1", ",", " ", "}">>),
    Bytes(<<"[", "\"", "FF", "\"", "]">>),
    Bytes(<<"{", "\"", "C3", "A9", "\"", ":", "\"", "C3", "A9", "\"", "}">>),
    Bytes(<<"-", "1", ".", "5", "e", "1">>),
    Bytes(<<"[", "1", "0", ",", "n", "u", "l", "l", "]">>),
    Bytes(<<"t", "r">>),
    Bytes(<<"\"", "x", "\"">>),
    Bytes(<<"[", "f", "a", "l", "s", "e", "]", "x">>) }

Inputs == SeqsUpTo(EnumAlphabet, MaxLen) \cup Corpus

\* basic_parse holds a yield (line 132), so calling it runs none of its
\* body: the body starts at the first next()
StartPosition_eager == "alloc"

StartPosition == "created"

SessionInit(d) ==
  /\ source = d
  /\ pc = StartPosition
  /\ pulling = FALSE
  /\ hstate = "none"
  /\ handle = NewHandle(FALSE)
  /\ buffer = <<>>
  /\ result = -1
  /\ events = <<>>
  /\ iter = 0
  /\ exc = NoExc
  /\ outcome = NoExc
  /\ yielded = <<>>
  /\ appended = <<>>
  /\ invoked = <<>>
  /\ calls = <<>>
  /\ late = 0

Init ==
  /\ doc \in Inputs
  /\ cfg \in [allow_comments : {FALSE}, check_utf8 : BOOLEAN, buf_size : 1..MaxBuf]
  /\ garbage \in {0, 1}
  /\ python \in PythonVersions
  /\ SessionInit(doc)
  /\ first = NoFirst
  /\ conv = NoConv

(* ----------------------------------------------------------------------- *)
(* The caller                                                              *)
(* ----------------------------------------------------------------------- *)
\* next() on a generator that has not finished
Pull ==
  /\ pc \in {"created", "yield"}
  /\ ~pulling
  /\ pulling' = TRUE
  /\ pc' = IF pc = "created" THEN "alloc" ELSE "for"
  /\ UNCHANGED <<doc, python, source, cfg, garbage, hstate, handle, buffer, result,
                 events, iter, exc, outcome, yielded, appended, invoked,
                 calls, late, first, conv>>

\* close() (or the collection of the abandoned generator): GeneratorExit is
\* raised at the yield; a generator that never started just finishes
Close ==
  /\ pc \in {"created", "yield"}
  /\ ~pulling
  /\ IF pc = "created"
     THEN /\ pc' = "closed"
          /\ outcome' = Exc("GeneratorExit", <<>>)
          /\ UNCHANGED <<pulling, exc>>
     ELSE /\ pc' = "finally"
          /\ pulling' = TRUE
          /\ exc' = Exc("GeneratorExit", <<>>)
          /\ UNCHANGED outcome
  /\ UNCHANGED <<doc, python, source, cfg, garbage, hstate, handle, buffer, result,
                 events, iter, yielded, appended, invoked, calls, late, first, conv>>

\* the position of a generator that has ended, after one more next()
after_end_restarted(p) == "created"

after_end(p) == p

\* next() on a generator that has ended raises StopIteration and runs nothing
PullEnded ==
  /\ pc \in {"done", "failed", "closed"}
  /\ late < MaxLate
  /\ late' = late + 1
  /\ pc' = after_end(pc)
  /\ UNCHANGED <<doc, python, source, cfg, garbage, pulling, hstate, handle, buffer,
                 result, events, iter, exc, outcome, yielded, appended,
                 invoked, calls, first, conv>>

(* ----------------------------------------------------------------------- *)
(* The generator body                                                      *)
(* ----------------------------------------------------------------------- *)
\* lines 103-113: events = [], the callbacks, the config, yajl_alloc
Alloc ==
  /\ pc = "alloc"
  /\ \E ok \in BOOLEAN :
       /\ hstate' = IF ok THEN "live" ELSE "null"
       /\ handle' = NewHandle(cfg.check_utf8)
  /\ events' = <<>>
  /\ calls' = Log(calls, <<Call("alloc", -1)>>)
  /\ pc' = "read"
  /\ UNCHANGED <<doc, python, source, cfg, garbage, pulling, buffer, result, iter,
                 exc, outcome, yielded, appended, invoked, late, first, conv>>

\* f.read(buf_size) returns at most buf_size bytes
Min_whole(a, b) == b

Min(a, b) == IF a < b THEN a ELSE b

\* line 116: buffer = f.read(buf_size)
Read ==
  /\ pc = "read"
  /\ LET n == Min(cfg.buf_size, Len(source))
     IN /\ buffer' = SubSeq(source, 1, n)
        /\ source' = SubSeq(source, n + 1, Len(source))
  /\ calls' = Log(calls, <<Call("read", -1)>>)
  /\ pc' = "parse"
  /\ UNCHANGED <<doc, python, cfg, garbage, pulling, hstate, handle, result, events,
                 iter, exc, outcome, yielded, appended, invoked, late, first, conv>>

\* line 116, f.read raising
ReadRaises ==
  /\ pc = "read"
  /\ calls' = Log(calls, <<Call("read", -1)>>)
  /\ exc' = Exc("IOError", <<>>)
  /\ pc' = "finally"
  /\ UNCHANGED <<doc, python, source, cfg, garbage, pulling, hstate, handle, buffer,
                 result, events, iter, outcome, yielded, appended, invoked,
                 late, first, conv>>

\* the status and the callbacks of lines 117-120
ParseCall(h, buf, evs, g, py) ==
  LET cb == [events |-> evs, invoked |-> <<>>, py |-> py]
  IN IF buf # <<>> THEN yajl_parse(h, buf, cb, g)
     ELSE yajl_parse_complete(h, cb, g)

\* lines 117-120: yajl_parse or yajl_parse_complete; a NULL handle is
\* dereferenced by the library
Parse ==
  /\ pc = "parse"
  /\ IF hstate = "null"
     THEN /\ pc' = "crashed"
          /\ outcome' = Exc("crash", <<>>)
          /\ calls' = Log(calls,
               <<Call(IF buffer # <<>> THEN "parse" ELSE "parse_complete", -1)>>)
          /\ UNCHANGED <<handle, result, events, appended, invoked>>
     ELSE \E r \in {ParseCall(handle, buffer, events, garbage, python)} :
             /\ handle' = r.h
             /\ result' = r.status
             /\ events' = r.cb.events
             /\ appended' = appended \o SubSeq(r.cb.events, Len(events) + 1,
                                               Len(r.cb.events))
             /\ invoked' = invoked \o r.cb.invoked
             /\ calls' = Log(calls,
                  <<Call(IF buffer # <<>> THEN "parse" ELSE "parse_complete",
                         r.status)>>)
             /\ pc' = "check"
             /\ UNCHANGED outcome
  /\ UNCHANGED <<doc, python, source, cfg, garbage, pulling, hstate, buffer, iter,
                 exc, yielded, late, first, conv>>

\* line 121
IsError_cancelled(res) == res = YAJL_CANCELLED

IsError(res) == res = YAJL_ERROR

\* line 126
AtEnd_buffer(buf, evs) == buf = <<>>

AtEnd_events(buf, evs) == buf = <<>> /\ evs # <<>>

AtEnd(buf, evs) == buf = <<>> /\ evs = <<>>

\* lines 122-124: the calls made on the handle before JSONError is raised
error_calls_freed ==
  <<Call("free", -1), Call("get_error", -1), Call("free_error", -1)>>

error_calls == <<Call("get_error", -1), Call("free_error", -1)>>

\* lines 127-129: the exception raised at the end of the input, if any
end_exception_cancelled(res) ==
  IF res = YAJL_CANCELLED THEN Exc("IncompleteJSONError", <<>>) ELSE NoExc

end_exception(res) ==
  IF res = YAJL_INSUFFICIENT_DATA THEN Exc("IncompleteJSONError", <<>>) ELSE NoExc

\* line 133: the value events is rebound to
events_kept(evs) == evs

events_reset(evs) == <<>>

\* line 134: a finally clause runs whatever leaves the try block
except_runs(e) == e.kind \notin {"", "GeneratorExit"}

finally_runs(e) == TRUE

\* lines 121-125: the diagnostic, then JSONError
RaiseJSONError ==
  /\ pc = "check"
  /\ IsError(result)
  /\ calls' = Log(calls, error_calls)
  /\ exc' = Exc("JSONError", yajl_get_error(handle, buffer))
  /\ pc' = "finally"
  /\ UNCHANGED <<doc, python, source, cfg, garbage, pulling, hstate, handle, buffer,
                 result, events, iter, outcome, yielded, appended, invoked,
                 late, first, conv>>

\* lines 126-129: nothing read and nothing buffered
EndOfInput ==
  /\ pc = "check"
  /\ ~IsError(result)
  /\ AtEnd(buffer, events)
  /\ exc' = end_exception(result)
  /\ pc' = "finally"
  /\ UNCHANGED <<doc, python, source, cfg, garbage, pulling, hstate, handle, buffer,
                 result, events, iter, outcome, yielded, appended, invoked,
                 calls, late, first, conv>>

\* line 131: the for loop starts over events
StartFor ==
  /\ pc = "check"
  /\ ~IsError(result)
  /\ ~AtEnd(buffer, events)
  /\ iter' = 0
  /\ pc' = "for"
  /\ UNCHANGED <<doc, python, source, cfg, garbage, pulling, hstate, handle, buffer,
                 result, events, exc, outcome, yielded, appended, invoked,
                 calls, late, first, conv>>

\* line 132: yield event
Yield ==
  /\ pc = "for"
  /\ iter < Len(events)
  /\ yielded' = Append(yielded, events[iter + 1])
  /\ iter' = iter + 1
  /\ pulling' = FALSE
  /\ pc' = "yield"
  /\ UNCHANGED <<doc, python, source, cfg, garbage, hstate, handle, buffer, result,
                 events, exc, outcome, appended, invoked, calls, late, first, conv>>

\* line 133: events = [] once the for loop is exhausted
Drained ==
  /\ pc = "for"
  /\ iter >= Len(events)
  /\ events' = events_reset(events)
  /\ pc' = "read"
  /\ UNCHANGED <<doc, python, source, cfg, garbage, pulling, hstate, handle, buffer,
                 result, iter, exc, outcome, yielded, appended, invoked,
                 calls, late, first, conv>>

\* how the generator ends for the exception leaving the finally clause
EndState(e) ==
  IF e.kind = "" THEN "done"
  ELSE IF e.kind = "GeneratorExit" THEN "closed"
  ELSE "failed"

\* lines 134-135: yajl_free(handle), then the exception (or StopIteration)
\* reaches the caller; a NULL handle is dereferenced by the library
Finally ==
  /\ pc = "finally"
  /\ IF ~finally_runs(exc)
     THEN /\ pc' = EndState(exc)
          /\ outcome' = IF exc.kind = "" THEN Exc("StopIteration", <<>>) ELSE exc
          /\ UNCHANGED <<hstate, calls>>
     ELSE /\ calls' = Log(calls, <<Call("free", -1)>>)
          /\ IF hstate = "null"
             THEN /\ pc' = "crashed"
                  /\ outcome' = Exc("crash", <<>>)
                  /\ UNCHANGED hstate
             ELSE /\ hstate' = "freed"
                  /\ pc' = EndState(exc)
                  /\ outcome' = IF exc.kind = "" THEN Exc("StopIteration", <<>>)
                                 ELSE exc
  /\ pulling' = FALSE
  /\ UNCHANGED <<doc, python, source, cfg, garbage, handle, buffer, result, events,
                 iter, exc, yielded, appended, invoked, late, first, conv>>

Next ==
  \/ Pull
  \/ Close
  \/ Alloc
  \/ Read
  \/ ReadRaises
  \/ Parse
  \/ RaiseJSONError
  \/ EndOfInput
  \/ StartFor
  \/ Yield
  \/ Drained
  \/ Finally
  \/ PullEnded

Spec == Init /\ [][Next]_vars

(* ----------------------------------------------------------------------- *)
(* A caller that pulls until the generator ends, over a source whose read  *)
(* may raise.  The generator runs whenever it is resumed and the caller    *)
(* asks again after every event.                                           *)
(* ----------------------------------------------------------------------- *)
NextPull ==
  \/ Pull
  \/ Alloc
  \/ Read
  \/ ReadRaises
  \/ Parse
  \/ RaiseJSONError
  \/ EndOfInput
  \/ StartFor
  \/ Yield
  \/ Drained
  \/ Finally

\* Parse is enabled exactly when pc = "parse" and every Parse step leaves
\* that position, so the fairness of Parse is stated on the position.
ParseRuns == pc = "parse" /\ pc' \in {"check", "crashed"}

Steps ==
  \/ Pull
  \/ Alloc
  \/ Read
  \/ RaiseJSONError
  \/ EndOfInput
  \/ StartFor
  \/ Yield
  \/ Drained
  \/ Finally

LiveSpec ==
  Init /\ [][NextPull]_vars /\ WF_vars(Steps) /\ WF_pc(ParseRuns)

(* ----------------------------------------------------------------------- *)
(* The same doc parsed twice with different buf_size, each session pulled  *)
(* to its end; first keeps what the caller of the first session saw.       *)
(* ----------------------------------------------------------------------- *)
Restart ==
  /\ pc \in {"done", "failed"}
  /\ ~first.set
  /\ first' = [set |-> TRUE, yielded |-> yielded, outcome |-> outcome.kind]
  /\ \E b \in (1..MaxBuf) \ {cfg.buf_size} : cfg' = [cfg EXCEPT !.buf_size = b]
  /\ source' = doc
  /\ pc' = "created"
  /\ pulling' = FALSE
  /\ hstate' = "none"
  /\ handle' = NewHandle(FALSE)
  /\ buffer' = <<>>
  /\ result' = -1
  /\ events' = <<>>
  /\ iter' = 0
  /\ exc' = NoExc
  /\ outcome' = NoExc
  /\ yielded' = <<>>
  /\ appended' = <<>>
  /\ invoked' = <<>>
  /\ calls' = <<>>
  /\ late' = 0
  /\ UNCHANGED <<doc, python, garbage, conv>>

NextChunk ==
  \/ Pull
  \/ Alloc
  \/ Read
  \/ Parse
  \/ RaiseJSONError
  \/ EndOfInput
  \/ StartFor
  \/ Yield
  \/ Drained
  \/ Finally
  \/ Restart

ChunkSpec == Init /\ [][NextChunk]_vars

(* ----------------------------------------------------------------------- *)
(* The converters of _callback_data applied to a payload on their own      *)
(* ----------------------------------------------------------------------- *)
NumAlphabet == {Ord["-"], Ord["0"], Ord["1"], Ord["."], Ord["e"]}
TextAlphabet == {Ord["k"], Ord["C3"], Ord["A9"], Ord["FF"], Ord["ED"], Ord["A0"]}

Payloads(event) ==
  IF event = "number" THEN SeqsUpTo(NumAlphabet, MaxLexLen)
  ELSE IF event \in {"string", "map_key"} THEN SeqsUpTo(TextAlphabet, MaxLexLen)
  ELSE IF event = "boolean" THEN {<<0>>, <<1>>}
  ELSE IF event \in {"integer", "double"} THEN {<<1>>}
  ELSE {<<>>}

ConvInit ==
  /\ doc = <<>>
  /\ cfg = [allow_comments |-> FALSE, check_utf8 |-> FALSE, buf_size |-> 1]
  /\ garbage = 1
  /\ python \in PythonVersions
  /\ SessionInit(doc)
  /\ first = NoFirst
  /\ \E e \in EventKinds : \E p \in Payloads(e) :
       conv = [event |-> e, payload |-> p, done |-> FALSE, value |-> PyNone]

\* c_callback of line 107 evaluating func(*args)
ApplyConverter ==
  /\ ~conv.done
  /\ conv' = [conv EXCEPT !.done = TRUE, !.value = Convert(python, conv.event, conv.payload)]
  /\ UNCHANGED <<doc, python, cfg, garbage, first, session>>

NextConv == ApplyConverter

ConvSpec == ConvInit /\ [][NextConv]_vars

(* ----------------------------------------------------------------------- *)
(* Properties                                                              *)
(* ----------------------------------------------------------------------- *)
IsPrefix(a, b) == Len(a) <= Len(b) /\ SubSeq(b, 1, Len(a)) = a

CallIdx == 1..Len(calls)
ParseOps == {"parse", "parse_complete"}
HandleOps == {"parse", "parse_complete", "get_error", "free_error", "free"}
FreeCount == Cardinality({i \in CallIdx : calls[i].op = "free"})
Returned(op, st) == \E i \in CallIdx : calls[i].op = op /\ calls[i].st = st
SawSyntaxError == \E i \in CallIdx : calls[i].st = YAJL_ERROR
FinalizeAllOk ==
  /\ \E i \in CallIdx : calls[i].op = "parse_complete"
  /\ \A i \in CallIdx : calls[i].op = "parse_complete" => calls[i].st = YAJL_OK

\* the event a callback invocation stands for
TokenEvent(c) ==
  [event |-> c.event, value |-> Convert(python, c.event, c.payload)]

\* C1: when the recognizer never returned SyntaxError and finalize returned
\* Ok, a caller that pulled to the normal end received exactly one event per
\* callback invocation of the recognizer, in order, with the same
\* (kind, value) pairs.
C1_ExactTokens ==
  (pc = "done" /\ ~SawSyntaxError /\ FinalizeAllOk)
    => /\ Len(yielded) = Len(invoked)
       /\ \A i \in 1..Len(yielded) : yielded[i] = TokenEvent(invoked[i])

\* C2: in every state the events yielded so far are a prefix of the events
\* the callbacks appended so far.
C2_YieldedPrefix == IsPrefix(yielded, appended)

\* C2 witness: a session that failed after yielding two events.
C2_Witness ==
  /\ pc = "failed"
  /\ outcome.kind = "JSONError"
  /\ Len(yielded) >= 2
  /\ Len(calls) > 6

\* C3: two sessions over the same doc with different buf_size, both pulled
\* to the end, yield the same events and end the same way.
C3_ChunkIndependent ==
  (first.set /\ pc \in {"done", "failed"} /\ outcome.kind # "IOError")
    => /\ yielded = first.yielded
       /\ outcome.kind = first.outcome

\* C4: an allocated handle is never freed twice, is not freed while the
\* generator can still run, and has been freed exactly once when the
\* generator has ended (normally, with an error, or closed by the caller).
C4_FreedExactlyOnce ==
  /\ FreeCount <= 1
  /\ (hstate = "live" /\ pc \notin Terminal) => FreeCount = 0
  /\ (hstate \in {"live", "freed"} /\ pc \in Terminal) => FreeCount = 1

\* C4 witness: the caller closed the generator right after the first event.
C4_Witness ==
  /\ pc = "closed"
  /\ Len(yielded) = 1
  /\ Len(appended) > 1
  /\ FreeCount = 1

\* C5: once finalize has reported InsufficientData, the session ends with
\* IncompleteJSONError: it raises no JSONError and does not end normally.
C5_PrematureEnd ==
  Returned("parse_complete", YAJL_INSUFFICIENT_DATA)
    => /\ exc.kind \notin {"JSONError"}
       /\ pc # "done"
       /\ (pc = "failed" /\ outcome.kind # "IOError")
            => outcome.kind = "IncompleteJSONError"

\* C5 witness: the truncated document {"a": ended with IncompleteJSONError.
C5_Witness ==
  /\ doc = Bytes(<<"{", "\"", "a", "\"", ":">>)
  /\ pc = "failed"
  /\ outcome.kind = "IncompleteJSONError"

\* C6: a SyntaxError status is followed by JSONError carrying the non-empty
\* diagnostic get_error gave for that call, and get_error is only ever
\* called right after a call that returned SyntaxError.
C6_MalformedInput ==
  /\ result = YAJL_ERROR
       => /\ pc \in {"check", "finally", "failed"}
          /\ pc = "finally" => exc = Exc("JSONError", yajl_get_error(handle, buffer))
          /\ pc = "failed" => outcome = Exc("JSONError", yajl_get_error(handle, buffer))
          /\ yajl_get_error(handle, buffer).text # ""
  /\ \A i \in CallIdx :
       calls[i].op = "get_error"
         => i > 1 /\ calls[i - 1].op \in ParseOps /\ calls[i - 1].st = YAJL_ERROR
  /\ (exc.kind = "JSONError" \/ outcome.kind = "JSONError") => result = YAJL_ERROR

\* C6 witness: {"a":} failed with JSONError.
C6_Witness ==
  /\ doc = Bytes(<<"{", "\"", "a", "\"", ":", "}">>)
  /\ pc = "failed"
  /\ outcome.kind = "JSONError"
  /\ \E i \in CallIdx : calls[i].op = "get_error"

\* C7: no call on the handle follows its release; the diagnostic is read and
\* its buffer freed before yajl_free.
C7_NoUseAfterFree ==
  \A i \in CallIdx : \A j \in CallIdx :
    (i < j /\ calls[i].op = "free") => calls[j].op \notin HandleOps

\* C7 witness: a session that read the diagnostic and released the handle.
C7_Witness ==
  /\ pc = "failed"
  /\ \E i \in CallIdx : calls[i].op = "free_error"
  /\ calls[Len(calls)].op = "free"

\* C8: a session with a recognizer, whose caller keeps pulling, reaches the
\* normal end of the sequence or an error.
C8_Terminates == (hstate = "live") ~> (pc \in {"done", "failed"})

\* C8 witness: a session ended normally after a second finalize call.
C8_Witness ==
  /\ pc = "done"
  /\ Cardinality({i \in CallIdx : calls[i].op = "parse_complete"}) = 2
  /\ Len(yielded) >= 1

\* a == b in Python for a byte string and a text: Python 2 compares a str
\* and a unicode by content (equal when the bytes are the code points);
\* Python 3 never finds bytes equal to a str
PyEqual(a, b) ==
  a.val = b.val /\ (a.type = b.type \/ {a.type, b.type} = {"str", "unicode"})

\* C9: the value of a map_key event equals the text a string event carries
\* for the same bytes.
C9_MapKeyDecoded ==
  (conv.done /\ conv.event = "map_key"
     /\ ~Raised(Convert(python, "string", conv.payload)))
    => PyEqual(conv.value, Convert(python, "string", conv.payload))

IsIntLexeme(s) ==
  \E d \in {IF s # <<>> /\ s[1] = Ord["-"] THEN 2 ELSE 1} :
    Len(s) >= d /\ \A i \in d..Len(s) : IsDigit(s[i])

\* value of a lexeme of digits, independent of DigitsValue
RECURSIVE Horner(_, _)
Horner(s, acc) ==
  IF s = <<>> THEN acc ELSE Horner(Tail(s), 10 * acc + (Head(s) - Ord["0"]))

IntLexemeValue(s) ==
  IF s[1] = Ord["-"] THEN 0 - Horner(Tail(s), 0) ELSE Horner(s, 0)

\* a lexeme the recognizer hands to the number callback
IsNumberLexeme(s) ==
  \E tk \in {yajl_lex_lex(Append(s, Ord[" "]), 1, FALSE)} :
    tk.tok \in {"integer", "double"} /\ tk.s = 1 /\ tk.e = Len(s) + 1

\* C10: number() gives the exact int for a lexeme of an optional sign and
\* digits, a Decimal for a number lexeme with a fraction or an exponent, and
\* never a float.
C10_NumberExact ==
  (conv.done /\ conv.event = "number")
    => /\ IsIntLexeme(conv.payload)
            => conv.value = PyInt(IntLexemeValue(conv.payload))
       /\ (IsNumberLexeme(conv.payload) /\ ~IsIntLexeme(conv.payload))
            => conv.value.type = "Decimal"
       /\ conv.value.type # "float"

\* C11: when the session has failed with JSONError, every event the
\* callbacks appended (those of the failing call included) was yielded to
\* the caller before the error.
C11_NoEventLost ==
  (pc = "failed" /\ outcome.kind = "JSONError") => yielded = appended

\* C12: after a finalize call the session makes no further read of the
\* source, no feed and no second finalize.
C12_FinalizeOnce ==
  \A i \in CallIdx : \A j \in CallIdx :
    (i < j /\ calls[i].op = "parse_complete")
      => calls[j].op \notin {"read", "parse", "parse_complete"}

\* C13: after a feed or finalize call that returned Cancelled or SyntaxError
\* the session makes no further read, feed or finalize, and it does not end
\* normally.
C13_ErrorStatusStops ==
  /\ \A i \in CallIdx : \A j \in CallIdx :
       (i < j /\ calls[i].op \in ParseOps
              /\ calls[i].st \in {YAJL_CANCELLED, YAJL_ERROR})
         => calls[j].op \notin {"read", "parse", "parse_complete"}
  /\ (\E i \in CallIdx : calls[i].op \in ParseOps
                          /\ calls[i].st \in {YAJL_CANCELLED, YAJL_ERROR})
       => pc # "done"

\* a callback invocation whose value conversion raised
ConversionFailed ==
  \E i \in 1..Len(invoked) : Raised(Convert(python, invoked[i].event, invoked[i].payload))

\* C14: once a value conversion inside a callback has failed, the session
\* does not end normally: the failure reaches the caller as an error.
C14_ConversionSurfaces == ConversionFailed => pc # "done"

\* C15: IncompleteJSONError is raised only when the last read was empty, no
\* event is buffered and the last status is InsufficientData; every event
\* appended before it, those of a finalize call that reported
\* InsufficientData included, has been yielded.
C15_PrematureEndOnlyAtEnd ==
  (exc.kind = "IncompleteJSONError" \/ outcome.kind = "IncompleteJSONError")
    => /\ buffer = <<>>
       /\ events = <<>>
       /\ result = YAJL_INSUFFICIENT_DATA
       /\ yielded = appended
       /\ \E i \in CallIdx :
            /\ calls[i] = Call("parse_complete", YAJL_INSUFFICIENT_DATA)
            /\ \A j \in CallIdx : j > i => calls[j].op = "free"

\* C15 witness: [1 read in one chunk: the feed and the first finalize both
\* reported InsufficientData, the number the finalize emitted was yielded,
\* and the second finalize raised IncompleteJSONError.
C15_Witness ==
  /\ doc = Bytes(<<"[", "1">>)
  /\ pc = "failed"
  /\ outcome.kind = "IncompleteJSONError"
  /\ Len(yielded) = 2
  /\ Returned("parse", YAJL_INSUFFICIENT_DATA)
  /\ Cardinality({i \in CallIdx :
       calls[i] = Call("parse_complete", YAJL_INSUFFICIENT_DATA)}) = 2

IsSuffix(a, b) ==
  Len(a) <= Len(b) /\ SubSeq(b, Len(b) - Len(a) + 1, Len(b)) = a

\* C16: events is empty whenever the session is about to read the source or
\* to call yajl_parse / yajl_parse_complete, so it only ever holds the last
\* events appended; the chunk held is never longer than buf_size.
C16_OneChunk ==
  /\ pc \in {"read", "parse"} => events = <<>>
  /\ IsSuffix(events, appended)
  /\ Len(buffer) <= cfg.buf_size

\* C16 witness: a full chunk of two or more bytes is about to be fed after
\* the events of an earlier chunk were yielded.
C16_Witness ==
  /\ pc = "parse"
  /\ Len(yielded) >= 2
  /\ Len(buffer) = cfg.buf_size
  /\ cfg.buf_size >= 2
  /\ events = <<>>

\* a step taken by a generator that has ended changes nothing of the session
EndedStep ==
  pc \in {"done", "failed", "closed"}
    => /\ pc' = pc
       /\ yielded' = yielded
       /\ appended' = appended
       /\ invoked' = invoked
       /\ calls' = calls
       /\ source' = source
       /\ hstate' = hstate

\* C17: once the generator has ended (normally, with an error, or closed) no
\* step yields an event, reads the source or makes a call on the recognizer,
\* and the generator stays ended.
C17_TerminalStays == [][EndedStep]_vars

\* C17 witness: next() was called again on generators that had ended, here
\* one that had ended normally after yielding events.
C17_Witness ==
  /\ pc = "done"
  /\ late >= 1
  /\ Len(yielded) >= 1
  /\ hstate = "freed"

\* C18: with a NULL handle from yajl_alloc the session makes no read of the
\* source and no call on the handle.
C18_NullHandleUnused ==
  hstate = "null"
    => \A i \in CallIdx : calls[i].op \notin ({"read"} \cup HandleOps)

\* the operation of the call a step adds to the call log ("" when it adds none)
CallMade == IF Len(calls') > Len(calls) THEN calls'[Len(calls')].op ELSE ""

\* a step of a session whose work is done only inside next()
PullDrivenStep ==
  /\ pc = "created" => (calls = <<>> /\ hstate = "none" /\ source = doc
                         /\ invoked = <<>>)
  /\ (\/ CallMade \in {"alloc", "read", "parse", "parse_complete"}
      \/ invoked' # invoked
      \/ source' # source)
       => (pulling /\ exc.kind # "GeneratorExit")
  /\ (pc = "created" /\ pc' = "closed")
       => (calls' = <<>> /\ hstate' = "none")

\* C19: a session that was created and not yet pulled has allocated nothing
\* and read nothing; allocation, reads, feeds, finalize and callbacks happen
\* only while a next() of the caller is running; closing a session that was
\* never pulled releases nothing.
C19_PullDriven == [][PullDrivenStep]_vars

\* C19 witness: a session that was created and closed without ever being
\* pulled.
C19_Witness ==
  /\ pc = "closed"
  /\ calls = <<>>
  /\ hstate = "none"
  /\ source = doc
  /\ doc # <<>>

====
